---- MODULE Spec2Model ----
(***************************************************************************)
(* Model of the spatial index (Quadtree) and the force-aggregation engine  *)
(* (Reactions / compute) of src/src/space.rs, with the Sphere body of      *)
(* src/src/physics.rs, driven as Simulation::update drives them            *)
(* (src/src/simulation.rs).                                                *)
(*                                                                         *)
(* Representation.                                                         *)
(*  - Vectors are pairs <<x, y>> of integers: positions live on an integer *)
(*    lattice, so that pos * scale floors exactly as in exact arithmetic.  *)
(*  - Option<UVec2> is a sequence: <<>> is None, <<c>> is Some(c).         *)
(*  - Rust indices are 0-based, TLA+ sequences 1-based: element i of a     *)
(*    Vec v is v[i + 1].                                                   *)
(*  - A Sphere is [mass, mpos, r3]: mpos is the mass-weighted position     *)
(*    (mass * pos, the exact value of the lerp centroid) and r3 the cube   *)
(*    of the radius (the exact value under the cbrt merge).                *)
(*  - A force is a scalar "strength": effect_on yields the mass of the     *)
(*    acting sphere (zero for a zero mass), so that a force entry counts   *)
(*    the mass whose influence was added to it.                            *)
(***************************************************************************)
EXTENDS Integers, Sequences, FiniteSets, TLC

VARIABLES
    inner,      \* Quadtree.inner : Vec<Option<UVec2>>, the node markers
    points,     \* Quadtree.points: Vec<Vec<usize>>, the leaf buckets
    quads,      \* Quadtree.quads : Vec<usize>, the active-node list
    pos,        \* Quadtree.pos   : origin of the covered square
    size,       \* Quadtree.size  : side of the covered square
    rinner,     \* Reactions.inner: Vec<Quad<Sphere>>, the cell aggregates
    field,      \* the force array handed to compute
    objects,    \* the body slice of the current step (Simulation.particles)
    handles,    \* the handle iterable last given to build_from_objects
    depth,      \* the local `depth` of the last build_from_objects
    parents,    \* the parent indices computed by the running compute
    clears,     \* clear() calls in a row that led to the index (at most 2)
    pc          \* position of the caller: idle, built, sum, part, done, panic

vars == <<inner, points, quads, pos, size, rinner, field, objects, handles,
          depth, parents, clears, pc>>

----------------------------------------------------------------------------
(* Bounds and inputs *)

\* Largest number of bodies in a step.
MaxBodies == 3

\* The bodies a step may hold (position, mass, radius 1).  A step's body
\* slice is a subsequence of the first MaxBodies entries (particles.retain).
Catalog ==
    << [pos |-> <<1, 1>>, mass |-> 1, radius |-> 1],
       [pos |-> <<4, 3>>, mass |-> 2, radius |-> 1],
       [pos |-> <<3, 3>>, mass |-> 4, radius |-> 1],
       [pos |-> <<0, 2>>, mass |-> 8, radius |-> 1],
       [pos |-> <<2, 4>>, mass |-> 16, radius |-> 1] >>

\* Origins and sizes given to set_pos / set_size.
Origins == { <<0, 0>>, <<1, 1>> }
Sizes == { 4 }

----------------------------------------------------------------------------
(* Helpers *)

None == << >>
Some(c) == << c >>
IsSome(o) == o # << >>
Unwrap(o) == o[1]

\* Option::get_or_insert
GetOrInsert(o, c) == IF IsSome(o) THEN o ELSE Some(c)

Range(s) == { s[i] : i \in 1..Len(s) }

RECURSIVE Reverse(_)
Reverse(s) == IF s = << >> THEN << >> ELSE Append(Reverse(Tail(s)), Head(s))

RECURSIVE Pow2(_)
Pow2(n) == IF n = 0 THEN 1 ELSE 2 * Pow2(n - 1)

Pow4(n) == Pow2(2 * n)

\* usize::ilog2 (x > 0)
RECURSIVE ILog2(_)
ILog2(x) == IF x <= 1 THEN 0 ELSE 1 + ILog2(x \div 2)

\* usize::is_power_of_two
IsPowerOfTwo(x) == x > 0 /\ Pow2(ILog2(x)) = x

\* x | 1
Or1(x) == IF x % 2 = 0 THEN x + 1 ELSE x

\* A variant of ceil_log4 that forgets to round up.
CeilLog4NoRound(x) == (ILog2(Or1(x)) + 1) \div 2

\* ceil_log4
ceil_log4(x) ==
    (ILog2(Or1(x)) + (IF IsPowerOfTwo(x) THEN 0 ELSE 1) + 1) \div 2

\* Quadtree::len_for_depth
len_for_depth(d) == ((4 * Pow2(2 * d)) - 1) \div 3

\* Resize of a Vec to at least n elements, new elements being e.
RECURSIVE Resize(_, _, _)
Resize(v, n, e) == IF Len(v) >= n THEN v ELSE Resize(Append(v, e), n, e)

\* zorder::index_of([x, y]): the bits of x and y interleaved, x lowest.
RECURSIVE index_of(_, _)
index_of(x, y) ==
    IF x = 0 /\ y = 0 THEN 0
    ELSE (x % 2) + 2 * (y % 2) + 4 * index_of(x \div 2, y \div 2)

\* The parent index (quad - 1) / 4 in usize arithmetic.  For quad = 0 the
\* subtraction wraps: usize::MAX / 4, here for a 32-bit usize.
WrappedParent == 1073741823
ParentOf(quad) == IF quad = 0 THEN WrappedParent ELSE (quad - 1) \div 4

----------------------------------------------------------------------------
(* Quadtree *)

\* Quadtree::grow : the two resized vectors
grow(in, pts, d) ==
    [inner  |-> Resize(in, len_for_depth(d), None),
     points |-> Resize(pts, Pow2(2 * d), << >>)]

\* A clear that empties the buckets but leaves the markers.
ClearKeepMarkers(in, pts, qs) ==
    [inner  |-> in,
     points |-> [z \in 1..Len(pts) |-> << >>],
     quads  |-> << >>]

\* Quadtree::clear
clear(in, pts, qs) ==
    [inner  |-> [i \in 1..Len(in) |-> IF (i - 1) \in Range(qs) THEN None ELSE in[i]],
     points |-> [z \in 1..Len(pts) |-> << >>],
     quads  |-> << >>]

\* The sweep of collate from node i down to node 1.
RECURSIVE CollateSweep(_, _, _)
CollateSweep(in, qs, i) ==
    IF i < 1 THEN [inner |-> in, quads |-> qs]
    ELSE IF IsSome(in[i + 1])
         THEN LET quad == Unwrap(in[i + 1])
                  p == ((i - 1) \div 4) + 1
                  in2 == [in EXCEPT ![p] =
                             GetOrInsert(@, <<quad[1] \div 2, quad[2] \div 2>>)]
              IN CollateSweep(in2, Append(qs, i), i - 1)
         ELSE CollateSweep(in, qs, i - 1)

\* A collate that forgets to reverse the list.
CollateNoReverse(in, qs) ==
    LET s == CollateSweep(in, qs, Len(in) - 1)
    IN [inner |-> s.inner, quads |-> Append(s.quads, 0)]

\* Quadtree::collate
collate(in, qs) ==
    LET s == CollateSweep(in, qs, Len(in) - 1)
    IN [inner |-> s.inner, quads |-> Reverse(Append(s.quads, 0))]

\* The filter of build_from_objects: the relative position lies in [0, size).
InBounds(rel, sz) ==
    /\ (IF rel[1] < rel[2] THEN rel[1] ELSE rel[2]) >= 0
    /\ (IF rel[1] > rel[2] THEN rel[1] ELSE rel[2]) < sz

\* floor(rel * scale), scale = 2^depth / size
GridCoords(rel, d, sz) ==
    << (rel[1] * Pow2(d)) \div sz, (rel[2] * Pow2(d)) \div sz >>

\* The placement loop of build_from_objects over the handles from position
\* k on.  `id` is the position k - 1 that enumerate() yields.
RECURSIVE PlaceFrom(_, _, _, _, _, _, _, _, _)
PlaceFrom(in, pts, objs, hs, k, origin, sz, d, leaf_idx) ==
    IF k > Len(hs) THEN [inner |-> in, points |-> pts]
    ELSE LET id  == k - 1
             p   == objs[hs[k] + 1].pos
             rel == <<p[1] - origin[1], p[2] - origin[2]>>
         IN IF InBounds(rel, sz)
            THEN LET coords == GridCoords(rel, d, sz)
                     z == index_of(coords[1], coords[2])
                 IN PlaceFrom(
                        [in EXCEPT ![leaf_idx + z + 1] = GetOrInsert(@, coords)],
                        [pts EXCEPT ![z + 1] = Append(@, id)],
                        objs, hs, k + 1, origin, sz, d, leaf_idx)
            ELSE PlaceFrom(in, pts, objs, hs, k + 1, origin, sz, d, leaf_idx)

\* Quadtree::build_from_objects : the index it leaves and its local depth
build_from_objects(in, pts, qs, origin, sz, objs, hs) ==
    LET d == ceil_log4(Len(objs) * 2)
        g == grow(in, pts, d)
        leaf_idx == Len(g.inner) - Len(g.points)
        placed == PlaceFrom(g.inner, g.points, objs, hs, 1, origin, sz, d, leaf_idx)
        c == collate(placed.inner, qs)
    IN [inner |-> c.inner, points |-> placed.points, quads |-> c.quads, depth |-> d]

\* Quadtree::children
children(in, parent) ==
    LET cand == [j \in 1..4 |-> parent * 4 + j]
    IN SelectSeq(cand, LAMBDA i : IsSome(in[i + 1]))


----------------------------------------------------------------------------
(* Sphere (physics.rs) *)

\* Sphere::default
DefaultSphere == [mass |-> 0, mpos |-> <<0, 0>>, r3 |-> 0]

\* The Sphere of a body: objects[i].borrow()
SphereOf(b) ==
    [mass |-> b.mass,
     mpos |-> <<b.mass * b.pos[1], b.mass * b.pos[2]>>,
     r3   |-> b.radius * b.radius * b.radius]

\* Sphere::combine
combine(self, other) ==
    LET merged == IF other.mass > 0
                  THEN [self EXCEPT !.mass = self.mass + other.mass,
                                    !.mpos = <<self.mpos[1] + other.mpos[1],
                                               self.mpos[2] + other.mpos[2]>>]
                  ELSE self
    IN [merged EXCEPT !.r3 = self.r3 + other.r3]

\* Sphere::effect_on : the strength of the force, the acting mass
effect_on(self, other) == IF self.mass = 0 THEN 0 ELSE self.mass

----------------------------------------------------------------------------
(* Reactions and compute (space.rs) *)

\* Quad::default, and the value Quad::reset leaves
DefaultQuad == [sum |-> DefaultSphere, acc |-> 0, near |-> << >>]

\* Reactions::clear
ReactionsClear(r) == [i \in 1..Len(r) |-> DefaultQuad]

\* Reactions::grow
ReactionsGrow(r, len) == Resize(r, len, DefaultQuad)

\* The bucket threshold above which a neighbour acts as one aggregate.
NearThreshold == 24

\* A test that forgets the absolute value.
IsNearSigned(a, b) ==
    LET dx == a[1] - b[1]
        dy == a[2] - b[2]
    IN (IF dx > dy THEN dx ELSE dy) <= 1

\* The near test of Pass 2: Chebyshev distance of two cells at most 1.
IsNear(a, b) ==
    LET dx == IF a[1] >= b[1] THEN a[1] - b[1] ELSE b[1] - a[1]
        dy == IF a[2] >= b[2] THEN a[2] - b[2] ELSE b[2] - a[2]
    IN (IF dx > dy THEN dx ELSE dy) <= 1

\* Flattening of a sequence of sequences (flat_map).
RECURSIVE Flatten(_)
Flatten(ss) == IF ss = << >> THEN << >> ELSE Head(ss) \o Flatten(Tail(ss))

\* The inner loop of Pass 1: a bucket combined into a sum, from position k.
RECURSIVE SumBucket(_, _, _, _)
SumBucket(sum, bucket, objs, k) ==
    IF k > Len(bucket) THEN sum
    ELSE SumBucket(combine(sum, SphereOf(objs[bucket[k] + 1])), bucket, objs, k + 1)

\* Pass 1, the bottom-up sums: the list in reverse from position k.  The
\* write through the wrapped parent index of the root lands outside the
\* aggregate array and leaves the array as it is.
RECURSIVE SumPass(_, _, _, _, _, _)
SumPass(r, in, pts, qs, objs, k) ==
    IF k < 1 THEN r
    ELSE LET quad == qs[k]
             leaf_idx == Len(in) - Len(pts)
             r1 == IF quad >= leaf_idx
                   THEN [r EXCEPT ![quad + 1].sum =
                            SumBucket(@, pts[quad - leaf_idx + 1], objs, 1)]
                   ELSE r
             p == ParentOf(quad)
             r2 == IF p < Len(r1)
                   THEN [r1 EXCEPT ![p + 1].sum = combine(@, r1[quad + 1].sum)]
                   ELSE r1
         IN SumPass(r2, in, pts, qs, objs, k - 1)

\* Pass 2 for one node: the candidates from position j on.
RECURSIVE PartitionNode(_, _, _, _, _)
PartitionNode(r, in, quad, cands, j) ==
    IF j > Len(cands) THEN r
    ELSE LET candidate == cands[j]
             coords == Unwrap(in[quad + 1])
             r1 == IF IsNear(Unwrap(in[candidate + 1]), coords)
                   THEN [r EXCEPT ![quad + 1].near = Append(@, candidate)]
                   ELSE [r EXCEPT ![quad + 1].acc =
                            @ + effect_on(r[candidate + 1].sum, r[quad + 1].sum)]
         IN PartitionNode(r1, in, quad, cands, j + 1)

\* Pass 2, the near/far partition: the list from position k on.
RECURSIVE PartitionPass(_, _, _, _)
PartitionPass(r, in, qs, k) ==
    IF k > Len(qs) THEN r
    ELSE LET quad == qs[k]
             pnear == r[ParentOf(quad) + 1].near
             cands == Flatten([i \in 1..Len(pnear) |-> children(in, pnear[i])])
         IN PartitionPass(PartitionNode(r, in, quad, cands, 1), in, qs, k + 1)

\* field[point] += v for every point of a bucket, from position k.
RECURSIVE AddToAll(_, _, _, _)
AddToAll(f, bucket, v, k) ==
    IF k > Len(bucket) THEN f
    ELSE AddToAll([f EXCEPT ![bucket[k] + 1] = @ + v], bucket, v, k + 1)

\* The direct evaluation of one source bucket on one point.
RECURSIVE DirectOn(_, _, _, _, _)
DirectOn(f, point, sources, objs, k) ==
    IF k > Len(sources) THEN f
    ELSE DirectOn([f EXCEPT ![point + 1] =
                      @ + effect_on(SphereOf(objs[sources[k] + 1]),
                                    SphereOf(objs[point + 1]))],
                  point, sources, objs, k + 1)

\* One neighbour of a leaf acting on the points of the leaf, from position k.
RECURSIVE NeighbourOn(_, _, _, _, _, _)
NeighbourOn(f, target, nbucket, nsum, objs, k) ==
    IF k > Len(target) THEN f
    ELSE LET point == target[k]
             f1 == IF Len(nbucket) > NearThreshold
                   THEN [f EXCEPT ![point + 1] =
                            @ + effect_on(nsum, SphereOf(objs[point + 1]))]
                   ELSE DirectOn(f, point, nbucket, objs, 1)
         IN NeighbourOn(f1, target, nbucket, nsum, objs, k + 1)

\* The near-list of a leaf without the leaf, acting on it, from position k.
RECURSIVE NeighboursOn(_, _, _, _, _, _, _, _)
NeighboursOn(f, r, pts, quad, leaf_idx, near, objs, k) ==
    IF k > Len(near) THEN f
    ELSE LET neighbour == near[k]
             f1 == IF neighbour = quad THEN f
                   ELSE NeighbourOn(f, pts[quad - leaf_idx + 1],
                                    pts[neighbour - leaf_idx + 1],
                                    r[neighbour + 1].sum, objs, 1)
         IN NeighboursOn(f1, r, pts, quad, leaf_idx, near, objs, k + 1)

\* tuple_combinations of a bucket: the pairs (a, b), a before b.
Pairs(target) ==
    Flatten([i \in 1..Len(target) |->
                [j \in 1..(Len(target) - i) |-> <<target[i], target[i + j]>>]])

\* The pairs of one bucket acting on each other, from position k.
RECURSIVE PairsOn(_, _, _, _)
PairsOn(f, prs, objs, k) ==
    IF k > Len(prs) THEN f
    ELSE LET a == prs[k][1]
             b == prs[k][2]
             fa == [f EXCEPT ![a + 1] =
                       @ + effect_on(SphereOf(objs[b + 1]), SphereOf(objs[a + 1]))]
             fb == [fa EXCEPT ![b + 1] =
                       @ + effect_on(SphereOf(objs[a + 1]), SphereOf(objs[b + 1]))]
         IN PairsOn(fb, prs, objs, k + 1)

\* Pass 3, propagation and resolution: the list from position k on.
RECURSIVE ResolvePass(_, _, _, _, _, _, _)
ResolvePass(r, f, in, pts, qs, objs, k) ==
    IF k > Len(qs) THEN [rinner |-> r, field |-> f]
    ELSE LET quad == qs[k]
             leaf_idx == Len(in) - Len(pts)
             r1 == [r EXCEPT ![quad + 1].acc = @ + r[ParentOf(quad) + 1].acc]
         IN IF quad < leaf_idx
            THEN ResolvePass(r1, f, in, pts, qs, objs, k + 1)
            ELSE LET target == pts[quad - leaf_idx + 1]
                     f1 == NeighboursOn(f, r1, pts, quad, leaf_idx,
                                        r1[quad + 1].near, objs, 1)
                     f2 == PairsOn(f1, Pairs(target), objs, 1)
                     f3 == AddToAll(f2, target, r1[quad + 1].acc, 1)
                 IN ResolvePass(r1, f3, in, pts, qs, objs, k + 1)

\* The parent indices a pass computes over the nodes it visits.
ParentsOf(pass, nodes) ==
    { [pass |-> pass, quad |-> q, parent |-> ParentOf(q)] : q \in nodes }

----------------------------------------------------------------------------
(* The system *)

\* The body slices of a step: the subsequences of the first MaxBodies bodies.
Slice(S) ==
    LET F[k \in 0..MaxBodies] ==
            IF k = 0 THEN << >>
            ELSE IF k \in S THEN Append(F[k - 1], Catalog[k]) ELSE F[k - 1]
    IN F[MaxBodies]

BodySlices == { Slice(S) : S \in SUBSET (1..MaxBodies) }

\* The handle iterables of a step over n bodies: every range a..b, and the
\* whole range in reverse.
HandleSeqs(n) ==
    { [i \in 1..(b - a) |-> a + i - 1] : a \in 0..n, b \in 0..n }
        \cup (IF n >= 2 THEN { [i \in 1..n |-> n - i] } ELSE {})

ZeroField == [i \in 1..MaxBodies |-> 0]

Init ==
    /\ inner = << >>
    /\ points = << >>
    /\ quads = << >>
    /\ pos = <<0, 0>>
    /\ size = 1
    /\ rinner = << >>
    /\ field = ZeroField
    /\ objects = << >>
    /\ handles = << >>
    /\ depth = 0
    /\ parents = {}
    /\ clears = 0
    /\ pc = "idle"

\* quadtree.clear(): at the start of a step, or again on a cleared index.
Clear ==
    /\ pc \in {"idle", "done"}
    /\ LET c == clear(inner, points, quads)
       IN /\ inner' = c.inner
          /\ points' = c.points
          /\ quads' = c.quads
    /\ clears' = IF pc = "idle" /\ clears >= 1 THEN 2 ELSE 1
    /\ pc' = "idle"
    /\ UNCHANGED <<pos, size, rinner, field, objects, handles, depth, parents>>

\* .set_pos(p).set_size(s).build_from_objects(objects, handles), which the
\* caller chains after clear() (pc = "idle": the index is new or cleared).
Build ==
    /\ pc = "idle"
    /\ \E origin \in Origins, sz \in Sizes, objs \in BodySlices :
         \E hs \in HandleSeqs(Len(objs)) :
            LET b == build_from_objects(inner, points, quads, origin, sz, objs, hs)
            IN /\ pos' = origin
               /\ size' = sz
               /\ objects' = objs
               /\ handles' = hs
               /\ inner' = b.inner
               /\ points' = b.points
               /\ quads' = b.quads
               /\ depth' = b.depth
    /\ pc' = "built"
    /\ UNCHANGED <<rinner, field, parents, clears>>

\* field.fill(zero); reactions.clear().compute_on(..): the start of compute
\* and its Pass 1.  At the root the subtraction quad - 1 underflows: the
\* run stops there (overflow check, or a fault on the wild address), or the
\* index wraps and the access goes outside the aggregate array.
Sum ==
    /\ pc \in {"idle", "built"}
    /\ field' = ZeroField
    /\ rinner' = SumPass(ReactionsGrow(ReactionsClear(rinner), Len(inner)),
                         inner, points, quads, objects, Len(quads))
    /\ parents' = ParentsOf(1, Range(quads))
    /\ \/ /\ 0 \notin Range(quads)
          /\ pc' = "sum"
       \/ /\ 0 \in Range(quads)
          /\ pc' = "panic"
       \/ /\ 0 \in Range(quads)
          /\ pc' = "sum"
    /\ UNCHANGED <<inner, points, quads, pos, size, objects, handles, depth, clears>>

\* Pass 2 of compute.  reactions.inner[0] and tree.quads[1..] are checked
\* accesses: they panic on an empty aggregate array and on an empty list.
Partition ==
    /\ pc = "sum"
    /\ \/ /\ Len(rinner) = 0
          /\ pc' = "panic"
          /\ UNCHANGED <<rinner, parents>>
       \/ /\ Len(rinner) > 0
          /\ quads = << >>
          /\ rinner' = [rinner EXCEPT ![1].near = Append(@, 0)]
          /\ pc' = "panic"
          /\ UNCHANGED parents
       \/ /\ Len(rinner) > 0
          /\ quads # << >>
          /\ rinner' = PartitionPass([rinner EXCEPT ![1].near = Append(@, 0)],
                                     inner, quads, 2)
          /\ parents' = parents \cup ParentsOf(2, Range(Tail(quads)))
          /\ pc' = "part"
    /\ UNCHANGED <<inner, points, quads, pos, size, field, objects, handles, depth,
                   clears>>

\* Pass 3 of compute, after which compute returns.
Resolve ==
    /\ pc = "part"
    /\ LET res == ResolvePass(rinner, field, inner, points, quads, objects, 2)
       IN /\ rinner' = res.rinner
          /\ field' = res.field
    /\ parents' = parents \cup ParentsOf(3, Range(Tail(quads)))
    /\ pc' = "done"
    /\ UNCHANGED <<inner, points, quads, pos, size, objects, handles, depth, clears>>

Next == Clear \/ Build \/ Sum \/ Partition \/ Resolve

Spec == Init /\ [][Next]_vars

----------------------------------------------------------------------------
(* Vocabulary of the properties *)

\* The index holds a build: build_from_objects ran since the last clear.
IndexBuilt == quads # << >>

\* compute has started on the index.
InCompute == pc \in {"sum", "part", "done", "panic"}

LeafIdx == Len(inner) - Len(points)

Nodes == 0..(Len(inner) - 1)

Active(i) == IsSome(inner[i + 1])

InList(i) == i \in Range(quads)

\* The position of body h relative to the origin, and whether build places it.
RelOf(h) == <<objects[h + 1].pos[1] - pos[1], objects[h + 1].pos[2] - pos[2]>>
Placed(h) == InBounds(RelOf(h), size)

\* The leaf node of the cell that holds body h, at the depth of the build.
CellOf(h) == GridCoords(RelOf(h), depth, size)
KeyOf(h) == index_of(CellOf(h)[1], CellOf(h)[2])
LeafOf(h) == LeafIdx + KeyOf(h)

\* The handles given to build, and those of them that build places.
Handles == Range(handles)
PlacedHandles == { h \in Handles : Placed(h) }

\* Every value held by some bucket, and how often a value is held.
Bucketed == UNION { Range(points[z]) : z \in 1..Len(points) }
Occurrences(v) ==
    Cardinality({ zj \in UNION { { <<z, j>> : j \in 1..Len(points[z]) } : z \in 1..Len(points) } :
                    points[zj[1]][zj[2]] = v })

\* Node a is node q or lies below it.
RECURSIVE IsUnder(_, _)
IsUnder(a, q) ==
    IF a = q THEN TRUE
    ELSE IF a <= q THEN FALSE
    ELSE IsUnder((a - 1) \div 4, q)

\* The mass of a set of bodies.
RECURSIVE MassOf(_)
MassOf(S) ==
    IF S = {} THEN 0
    ELSE LET h == CHOOSE x \in S : TRUE
         IN objects[h + 1].mass + MassOf(S \ {h})

\* A parent index computed by Pass 1 or Pass 3 is a proper index of the
\* aggregate array, other than the node's own, and not computed for the root.
SafeParent(a) ==
    /\ a.quad # 0
    /\ a.parent < Len(rinner)
    /\ a.parent # a.quad

----------------------------------------------------------------------------
(* Properties *)

NothingPlaced == \A z \in 1..Len(points) : points[z] = << >>

\* C1: after clear() twice in a row, or after clear() and a build that
\* places no body, compute on the zeroed force array runs to its end without
\* a failure or an access outside the aggregate array, and the force array
\* stays all zero.
C1_EmptyStepIsZero ==
    (/\ InCompute
     /\ \/ clears = 2 /\ ~IndexBuilt
        \/ clears >= 1 /\ IndexBuilt /\ NothingPlaced)
    => /\ pc # "panic"
       /\ \A a \in parents : a.parent < Len(rinner)
       /\ field = ZeroField

\* C2: after a build the active-node list starts with the root, ascends
\* strictly, and holds the parent of every other node at an earlier place.
C2_ParentBeforeChild ==
    IndexBuilt =>
        /\ quads[1] = 0
        /\ \A i, j \in 1..Len(quads) : i < j => quads[i] < quads[j]
        /\ \A k \in 2..Len(quads) :
              \E j \in 1..(k - 1) : quads[j] = (quads[k] - 1) \div 4

\* C2 witness: a build after clear() on an index an earlier step used, with
\* nodes on three levels.
C2_Witness ==
    /\ pc = "built"
    /\ clears >= 1
    /\ rinner # << >>
    /\ Len(quads) >= 5

\* C3: after Pass 1 the root aggregate has the mass of the placed bodies the
\* handles name, and every active node the mass of the placed bodies below it.
C3_MassConservation ==
    (pc \in {"sum", "part", "done"} /\ IndexBuilt) =>
        /\ rinner[1].sum.mass = MassOf(PlacedHandles)
        /\ \A q \in Range(quads) :
              rinner[q + 1].sum.mass =
                  MassOf({ h \in PlacedHandles : IsUnder(LeafOf(h), q) })

ActiveLeaves == { q \in Range(quads) : q >= LeafIdx }

\* C4: after Pass 2 the near-lists of the leaves are symmetric.
C4_NearSymmetric ==
    (pc \in {"part", "done"}) =>
        \A a, b \in ActiveLeaves :
            b \in Range(rinner[a + 1].near) => a \in Range(rinner[b + 1].near)

\* C4 witness: Pass 2 has run on leaves of which one has both a near and a
\* far leaf.
C4_Witness ==
    /\ pc = "part"
    /\ \E a, b, c \in ActiveLeaves :
          /\ a # b
          /\ b \in Range(rinner[a + 1].near)
          /\ c \notin Range(rinner[a + 1].near)

\* C5: a body the handles name whose position is outside [0, size) on some
\* axis is in no bucket, and compute leaves its force entry as it was.
C5_OutOfBoundsExcluded ==
    IndexBuilt =>
        \A h \in Handles \ PlacedHandles :
            /\ h \notin Bucketed
            /\ pc = "done" => field[h + 1] = 0

\* C6: every in-bounds handle is held exactly once, by the bucket of the
\* cell of its body, and the buckets hold nothing else.
C6_BucketsHoldHandles ==
    IndexBuilt =>
        /\ \A h \in PlacedHandles :
              /\ Occurrences(h) = 1
              /\ h \in Range(points[KeyOf(h) + 1])
        /\ Bucketed \subseteq PlacedHandles

\* d is the least depth whose 4^d leaves are at least twice n.
MinimalDepth(d, n) ==
    /\ Pow4(d) >= 2 * n
    /\ d = 0 \/ Pow4(d - 1) < 2 * n

\* C7 as stated: the depth of a build is the least depth for the number of
\* handles.
C7_DepthForHandles ==
    IndexBuilt => MinimalDepth(depth, Len(handles))

\* C7 amended: the depth of a build is the least depth for the length of the
\* body sequence, whatever the handles, and 1 for an empty body sequence.
C7_DepthForBodies ==
    IndexBuilt =>
        IF Len(objects) = 0 THEN depth = 1
        ELSE MinimalDepth(depth, Len(objects))

\* C7 witness: a build of depth 2 from fewer handles than bodies.
C7_Witness ==
    /\ pc = "built"
    /\ Len(objects) >= 3
    /\ Len(handles) < Len(objects)
    /\ depth = 2

\* C8: every parent index of Pass 1 and of Pass 3 is safe.
C8_ParentAccessSafe ==
    \A a \in parents : a.pass \in {1, 3} => SafeParent(a)

ParentsActive == \A i \in Nodes : (i # 0 /\ Active(i)) => Active((i - 1) \div 4)

LeavesMatchBuckets ==
    \A i \in Nodes : i >= LeafIdx => (Active(i) <=> points[i - LeafIdx + 1] # << >>)

\* C10 as stated: after a build that follows clear() a node is in the list
\* exactly if its marker is active, parents of active nodes are active, and
\* a leaf is active exactly if its bucket is not empty.
C10_ListIffActive ==
    (IndexBuilt /\ clears >= 1) =>
        /\ \A i \in Nodes : InList(i) <=> Active(i)
        /\ ParentsActive
        /\ LeavesMatchBuckets

\* The positions, in the handle iterable, of the handles build places.
PlacedPositions == { k \in 1..Len(handles) : Placed(handles[k]) }

\* C10 amended: after a build every node but the root is in the list exactly
\* if its marker is active; the root is always in the list and its marker is
\* active exactly if a body was placed; parents of active nodes are active;
\* a leaf is active exactly if its bucket is not empty; an inner node is
\* active exactly if a child is; and the buckets hold one entry for each
\* handle this build placed and nothing else.
C10_ListIffActiveBelowRoot ==
    IndexBuilt =>
        /\ \A i \in Nodes : i # 0 => (InList(i) <=> Active(i))
        /\ InList(0)
        /\ Active(0) <=> PlacedPositions # {}
        /\ ParentsActive
        /\ LeavesMatchBuckets
        /\ \A i \in Nodes : i < LeafIdx =>
              (Active(i) <=> \E j \in 1..4 : Active(4 * i + j))
        /\ Bucketed = { k - 1 : k \in PlacedPositions }
        /\ \A v \in Bucketed : Occurrences(v) = 1

\* C10 witness: a build after clear() that places bodies at depth 1 in the
\* storage an earlier build grew to depth 2.
C10_Witness ==
    /\ pc = "built"
    /\ clears >= 1
    /\ depth = 1
    /\ Len(points) = 16
    /\ PlacedPositions # {}

============================================================================
